---- MODULE Spec2Model ----
(***************************************************************************)
(* Candidate-job matching and ranking core of the resume analyzer          *)
(* (src/src/candidate_matcher.py).                                         *)
(*                                                                         *)
(* Strings are sequences of one-character strings, so that lower(),        *)
(* strip() and the substring test `in` are computed as Python computes     *)
(* them.  Scores are exact rationals [n, d] in lowest terms (the code      *)
(* uses IEEE doubles; every threshold the code compares against is hit     *)
(* exactly or missed by far more than a rounding error for the small       *)
(* integers used here).  A Python dict is a function whose DOMAIN is the   *)
(* set of keys present; a Python object is a record [id, d] of its         *)
(* identity and its dict.                                                  *)
(***************************************************************************)
EXTENDS Integers, Sequences, FiniteSets

VARIABLES
    candidate,      \* the candidate dict handed to the single-pair calls
    job,            \* the job_requirements dict of every call
    score,          \* result of the last calculate_match_score call, or NoResult
    analysis,       \* result of the last analyze_match_details call, or NoResult
    candidates,     \* the list (of objects) handed to the list calls
    top_n,          \* the top_n argument of find_best_matches
    ranked,         \* result of the last rank_candidates call, or NoResult
    best,           \* result of the last find_best_matches call, or NoResult
    call            \* the last direct call of a field matcher or of the
                    \* classifier: [fn, args, result], or NoResult

vars == <<candidate, job, score, analysis, candidates, top_n, ranked, best, call>>

NoResult == [none |-> TRUE]

-----------------------------------------------------------------------------
(* Bounds of the model                                                     *)

\* longest skill list of a candidate
MaxSkills == 2
\* largest number of years of experience, had or required
MaxYears == 2
\* longest candidate list handed to rank_candidates / find_best_matches
MaxCands == 3
\* largest number of years handed to calculate_experience_match
MaxExperience == 10
\* longest keyword list handed to calculate_text_similarity
MaxKeywords == 2

-----------------------------------------------------------------------------
(* Python strings                                                          *)

UpperCase == <<"A","B","C","D","E","F","G","H","I","J","K","L","M",
               "N","O","P","Q","R","S","T","U","V","W","X","Y","Z">>
LowerCase == <<"a","b","c","d","e","f","g","h","i","j","k","l","m",
               "n","o","p","q","r","s","t","u","v","w","x","y","z">>

UpperSet == {UpperCase[i] : i \in 1..Len(UpperCase)}
LowerOf == [c \in UpperSet |-> LowerCase[CHOOSE i \in 1..Len(UpperCase) : UpperCase[i] = c]]

LowerChar(c) == IF c \in UpperSet THEN LowerOf[c] ELSE c

\* str.lower()
lower(s) == [i \in 1..Len(s) |-> LowerChar(s[i])]

IsSpace(c) == c = " "

\* str.strip(): leading and trailing whitespace removed
strip(s) ==
    IF \A i \in 1..Len(s) : IsSpace(s[i]) THEN <<>>
    ELSE LET first == CHOOSE i \in 1..Len(s) :
                          ~IsSpace(s[i]) /\ \A j \in 1..(i-1) : IsSpace(s[j])
             last  == CHOOSE i \in 1..Len(s) :
                          ~IsSpace(s[i]) /\ \A j \in (i+1)..Len(s) : IsSpace(s[j])
         IN  SubSeq(s, first, last)

\* the substring test `sub in s`
StrIn(sub, s) ==
    \E i \in 0..(Len(s) - Len(sub)) : SubSeq(s, i + 1, i + Len(sub)) = sub

\* dict.get(key, default)
Get(d, key, default) == IF key \in DOMAIN d THEN d[key] ELSE default

\* d[key] = value on a dict
SetItem(d, key, value) ==
    [k \in DOMAIN d \cup {key} |-> IF k = key THEN value ELSE d[k]]

-----------------------------------------------------------------------------
(* Scores: exact rationals in lowest terms                                 *)

RECURSIVE Gcd(_, _)
Gcd(a, b) == IF b = 0 THEN a ELSE Gcd(b, a % b)

Abs(x) == IF x < 0 THEN -x ELSE x

Rat(n, d) ==
    LET g == Gcd(Abs(n), d) IN [n |-> n \div g, d |-> d \div g]

RatAdd(a, b) == Rat(a.n * b.d + b.n * a.d, a.d * b.d)
RatMul(a, b) == Rat(a.n * b.n, a.d * b.d)
RatLess(a, b) == a.n * b.d < b.n * a.d
RatLeq(a, b) == a.n * b.d <= b.n * a.d
RatMin(a, b) == IF RatLess(b, a) THEN b ELSE a
RatMax(a, b) == IF RatLess(a, b) THEN b ELSE a

Zero == Rat(0, 1)
One  == Rat(1, 1)
InUnit(r) == RatLeq(Zero, r) /\ RatLeq(r, One)

-----------------------------------------------------------------------------
(* Labels and texts                                                        *)

General   == <<"G","e","n","e","r","a","l">>
MLAI      == <<"M","L","/","A","I">>
DataEng   == <<"D","a","t","a"," ","E","n","g","i","n","e","e","r","i","n","g">>
Frontend  == <<"F","r","o","n","t","e","n","d">>
Backend   == <<"B","a","c","k","e","n","d">>
DevOps    == <<"D","e","v","O","p","s">>
Mobile    == <<"M","o","b","i","l","e">>
FullStack == <<"F","u","l","l"," ","S","t","a","c","k">>

-----------------------------------------------------------------------------
(* Field matchers                                                          *)

ml_ai            == <<"m","l","/","a","i">>
data_engineering == <<"d","a","t","a"," ","e","n","g","i","n","e","e","r","i","n","g">>
frontend         == <<"f","r","o","n","t","e","n","d">>
backend          == <<"b","a","c","k","e","n","d">>
devops           == <<"d","e","v","o","p","s">>
full_stack       == <<"f","u","l","l"," ","s","t","a","c","k">>
mobile           == <<"m","o","b","i","l","e">>
cloud            == <<"c","l","o","u","d">>

\* the dict literal of lines 82-90, read with .get(key, [])
domain_relationships(key) ==
    CASE key = ml_ai            -> <<data_engineering, backend>>
      [] key = data_engineering -> <<ml_ai, backend>>
      [] key = frontend         -> <<full_stack>>
      [] key = backend          -> <<full_stack, devops, ml_ai>>
      [] key = devops           -> <<backend, cloud>>
      [] key = full_stack       -> <<frontend, backend>>
      [] key = mobile           -> <<frontend>>
      [] OTHER                  -> <<>>

\* `x in list`
ListHas(list, x) == \E i \in 1..Len(list) : list[i] = x

\* mutant: the relation table is looked up by required domain only
calculate_domain_match_one_way(candidate_domain, required_domain) ==
    IF candidate_domain = <<>> \/ required_domain = <<>> THEN Rat(5, 10)
    ELSE LET cd == lower(candidate_domain)
             rd == lower(required_domain)
         IN  IF cd = rd THEN Rat(10, 10)
             ELSE IF ListHas(domain_relationships(rd), cd) THEN Rat(7, 10)
             ELSE IF StrIn(full_stack, cd) /\ ListHas(<<frontend, backend>>, rd)
                  THEN Rat(8, 10)
             ELSE IF StrIn(full_stack, rd) /\ ListHas(<<frontend, backend>>, cd)
                  THEN Rat(8, 10)
             ELSE Rat(2, 10)

calculate_domain_match(candidate_domain, required_domain) ==
    IF candidate_domain = <<>> \/ required_domain = <<>> THEN Rat(5, 10)
    ELSE LET cd == lower(candidate_domain)
             rd == lower(required_domain)
         IN  IF cd = rd THEN Rat(10, 10)
             ELSE IF ListHas(domain_relationships(rd), cd) THEN Rat(7, 10)
             ELSE IF ListHas(domain_relationships(cd), rd) THEN Rat(7, 10)
             ELSE IF StrIn(full_stack, cd) /\ ListHas(<<frontend, backend>>, rd)
                  THEN Rat(8, 10)
             ELSE IF StrIn(full_stack, rd) /\ ListHas(<<frontend, backend>>, cd)
                  THEN Rat(8, 10)
             ELSE Rat(2, 10)

\* lines 139-143: some candidate skill equals the required skill
FoundExact(required_skill, candidate_skills_lower) ==
    \E i \in 1..Len(candidate_skills_lower) :
        required_skill = candidate_skills_lower[i]

\* mutant: the len(required_skill) > 2 condition is left out
FoundPartialAnyLength(required_skill, candidate_skills_lower) ==
    /\ ~FoundExact(required_skill, candidate_skills_lower)
    /\ \E i \in 1..Len(candidate_skills_lower) :
          \/ StrIn(required_skill, candidate_skills_lower[i])
          \/ StrIn(candidate_skills_lower[i], required_skill)

\* lines 146-150: no exact match, and some candidate skill overlaps it
FoundPartial(required_skill, candidate_skills_lower) ==
    /\ ~FoundExact(required_skill, candidate_skills_lower)
    /\ \E i \in 1..Len(candidate_skills_lower) :
          /\ \/ StrIn(required_skill, candidate_skills_lower[i])
             \/ StrIn(candidate_skills_lower[i], required_skill)
          /\ Len(required_skill) > 2

\* lines 127-156: the score of two non-empty skill lists
skills_match_ratio(candidate_skills, required_skills) ==
    LET csl == [i \in 1..Len(candidate_skills) |-> strip(lower(candidate_skills[i]))]
        rsl == [i \in 1..Len(required_skills) |-> strip(lower(required_skills[i]))]
        exact_matches   == Cardinality({i \in 1..Len(rsl) : FoundExact(rsl[i], csl)})
        partial_matches == Cardinality({i \in 1..Len(rsl) : FoundPartial(rsl[i], csl)})
        \* exact + partial * 0.5, over len(required)
        match_score == Rat(2 * exact_matches + partial_matches, 2 * Len(rsl))
    IN  RatMin(match_score, One)

\* mutant: the two guards of lines 121-125 in the other order
calculate_skills_match_guards_swapped(candidate_skills, required_skills) ==
    IF candidate_skills = <<>> THEN Zero
    ELSE IF required_skills = <<>> THEN Rat(5, 10)
    ELSE skills_match_ratio(candidate_skills, required_skills)

calculate_skills_match(candidate_skills, required_skills) ==
    IF required_skills = <<>> THEN Rat(5, 10)
    ELSE IF candidate_skills = <<>> THEN Zero
    ELSE skills_match_ratio(candidate_skills, required_skills)

\* mutant: the breakpoints are exclusive
calculate_experience_match_exclusive(candidate_experience, required_experience) ==
    IF required_experience <= 0 THEN Rat(10, 10)
    ELSE IF candidate_experience <= 0 THEN Rat(1, 10)
    ELSE LET ratio == Rat(candidate_experience, required_experience)
         IN  IF RatLess(Rat(10, 10), ratio) THEN Rat(10, 10)
             ELSE IF RatLess(Rat(8, 10), ratio) THEN Rat(9, 10)
             ELSE IF RatLess(Rat(6, 10), ratio) THEN Rat(7, 10)
             ELSE IF RatLess(Rat(4, 10), ratio) THEN Rat(5, 10)
             ELSE IF RatLess(Rat(2, 10), ratio) THEN Rat(3, 10)
             ELSE Rat(1, 10)

calculate_experience_match(candidate_experience, required_experience) ==
    IF required_experience <= 0 THEN Rat(10, 10)
    ELSE IF candidate_experience <= 0 THEN Rat(1, 10)
    ELSE LET ratio == Rat(candidate_experience, required_experience)
         IN  IF RatLeq(Rat(10, 10), ratio) THEN Rat(10, 10)
             ELSE IF RatLeq(Rat(8, 10), ratio) THEN Rat(9, 10)
             ELSE IF RatLeq(Rat(6, 10), ratio) THEN Rat(7, 10)
             ELSE IF RatLeq(Rat(4, 10), ratio) THEN Rat(5, 10)
             ELSE IF RatLeq(Rat(2, 10), ratio) THEN Rat(3, 10)
             ELSE Rat(1, 10)

\* mutant: a repeated keyword is counted once
calculate_text_similarity_distinct(candidate_keywords, job_description) ==
    IF job_description = <<>> \/ candidate_keywords = <<>> THEN Zero
    ELSE LET jdl == lower(job_description)
             matches == Cardinality({candidate_keywords[i] : i \in
                            {i \in 1..Len(candidate_keywords) :
                                /\ candidate_keywords[i] # <<>>
                                /\ StrIn(lower(candidate_keywords[i]), jdl)}})
         IN  Rat(matches, Len(candidate_keywords))

\* mutant: the keywords are not lowercased
calculate_text_similarity_case_sensitive(candidate_keywords, job_description) ==
    IF job_description = <<>> \/ candidate_keywords = <<>> THEN Zero
    ELSE LET jdl == lower(job_description)
             matches == Cardinality({i \in 1..Len(candidate_keywords) :
                            /\ candidate_keywords[i] # <<>>
                            /\ StrIn(candidate_keywords[i], jdl)})
         IN  Rat(matches, Len(candidate_keywords))

calculate_text_similarity(candidate_keywords, job_description) ==
    IF job_description = <<>> \/ candidate_keywords = <<>> THEN Zero
    ELSE LET jdl == lower(job_description)
             matches == Cardinality({i \in 1..Len(candidate_keywords) :
                            /\ candidate_keywords[i] # <<>>
                            /\ StrIn(lower(candidate_keywords[i]), jdl)})
         IN  Rat(matches, Len(candidate_keywords))

-----------------------------------------------------------------------------
(* Match score aggregator                                                  *)

\* mutant: the text weight is keyed 'text_match', so the 0.25 default applies
weights_text_miskeyed(category) ==
    CASE category = "domain_match"     -> Rat(3, 10)
      [] category = "skills_match"     -> Rat(4, 10)
      [] category = "experience_match" -> Rat(2, 10)
      [] OTHER                         -> Rat(25, 100)

\* the weights dict of lines 20-25, read with .get(category, 0.25)
weights(category) ==
    CASE category = "domain_match"     -> Rat(3, 10)
      [] category = "skills_match"     -> Rat(4, 10)
      [] category = "experience_match" -> Rat(2, 10)
      [] category = "text_similarity"  -> Rat(1, 10)
      [] OTHER                         -> Rat(25, 100)

\* the (category, score) list built by lines 27-53
\* mutant: a candidate without 'experience_years' is taken to have one year
field_scores_one_year(cand, job_requirements) ==
    << <<"domain_match",
         calculate_domain_match(Get(cand, "domain", General),
                                Get(job_requirements, "domain", General))>>,
       <<"skills_match",
         calculate_skills_match(Get(cand, "skills", <<>>),
                                Get(job_requirements, "required_skills", <<>>))>>,
       <<"experience_match",
         calculate_experience_match(Get(cand, "experience_years", 1),
                                    Get(job_requirements, "required_experience", 0))>>,
       <<"text_similarity",
         calculate_text_similarity(Get(cand, "skills", <<>>) \o <<Get(cand, "domain", <<>>)>>,
                                   Get(job_requirements, "job_description", <<>>))>> >>

field_scores(cand, job_requirements) ==
    << <<"domain_match",
         calculate_domain_match(Get(cand, "domain", General),
                                Get(job_requirements, "domain", General))>>,
       <<"skills_match",
         calculate_skills_match(Get(cand, "skills", <<>>),
                                Get(job_requirements, "required_skills", <<>>))>>,
       <<"experience_match",
         calculate_experience_match(Get(cand, "experience_years", 0),
                                    Get(job_requirements, "required_experience", 0))>>,
       <<"text_similarity",
         calculate_text_similarity(Get(cand, "skills", <<>>) \o <<Get(cand, "domain", <<>>)>>,
                                   Get(job_requirements, "job_description", <<>>))>> >>

RECURSIVE WeightedSum(_)
WeightedSum(scores) ==
    IF scores = <<>> THEN Zero
    ELSE RatAdd(WeightedSum(SubSeq(scores, 1, Len(scores) - 1)),
                RatMul(scores[Len(scores)][2], weights(scores[Len(scores)][1])))

\* line 56
total_score(cand, job_requirements) == WeightedSum(field_scores(cand, job_requirements))

\* mutant: the sum is returned as a percentage, unclamped
calculate_match_score_percent(cand, job_requirements) ==
    RatMul(total_score(cand, job_requirements), Rat(100, 1))

calculate_match_score(cand, job_requirements) ==
    RatMin(RatMax(total_score(cand, job_requirements), Zero), One)

-----------------------------------------------------------------------------
(* Match explainer                                                         *)

\* mutant: the lower bounds are exclusive
get_match_level_exclusive(s) ==
    IF RatLess(Rat(9, 10), s) THEN "Excellent"
    ELSE IF RatLess(Rat(7, 10), s) THEN "Good"
    ELSE IF RatLess(Rat(5, 10), s) THEN "Fair"
    ELSE IF RatLess(Rat(3, 10), s) THEN "Poor"
    ELSE "Very Poor"

get_match_level(s) ==
    IF RatLeq(Rat(9, 10), s) THEN "Excellent"
    ELSE IF RatLeq(Rat(7, 10), s) THEN "Good"
    ELSE IF RatLeq(Rat(5, 10), s) THEN "Fair"
    ELSE IF RatLeq(Rat(3, 10), s) THEN "Poor"
    ELSE "Very Poor"

\* list[:n]
SliceTo(list, n) ==
    IF n >= 0 THEN SubSeq(list, 1, IF n < Len(list) THEN n ELSE Len(list))
    ELSE SubSeq(list, 1, Len(list) + n)

\* mutant: the required skill is compared without lower()
SkillFoundCaseSensitive(req_skill, candidate_skills) ==
    \E i \in 1..Len(candidate_skills) :
        \/ StrIn(req_skill, lower(candidate_skills[i]))
        \/ StrIn(lower(candidate_skills[i]), req_skill)

\* lines 299-304: some candidate skill contains, or is contained in, req_skill
SkillFound(req_skill, candidate_skills) ==
    \E i \in 1..Len(candidate_skills) :
        \/ StrIn(lower(req_skill), lower(candidate_skills[i]))
        \/ StrIn(lower(candidate_skills[i]), lower(req_skill))

\* lines 295-306: the required skills appended to matched_skills, in order
matched_skills_of(candidate_skills, required_skills) ==
    LET Found(r) == SkillFound(r, candidate_skills)
    IN  SelectSeq(required_skills, Found)

\* lines 295-306: the required skills appended to missing_skills, in order
missing_skills_of(candidate_skills, required_skills) ==
    LET NotFound(r) == ~SkillFound(r, candidate_skills)
    IN  SelectSeq(required_skills, NotFound)

\* line 313
additional_skills_of(candidate_skills, matched_skills) ==
    LET NotMatched(s) == ~ListHas(matched_skills, s)
    IN  SelectSeq(candidate_skills, NotMatched)

\* mutant: the explainer averages the three scores it reports
analysis_overall_score_mean(cand, job_requirements) ==
    RatMul(Rat(1, 3),
           RatAdd(calculate_domain_match(Get(cand, "domain", General),
                                         Get(job_requirements, "domain", General)),
                  RatAdd(calculate_skills_match(Get(cand, "skills", <<>>),
                                                Get(job_requirements, "required_skills", <<>>)),
                         calculate_experience_match(Get(cand, "experience_years", 0),
                                                    Get(job_requirements, "required_experience", 0)))))

\* line 270: the 'overall_score' entry of the analysis
analysis_overall_score(cand, job_requirements) ==
    calculate_match_score(cand, job_requirements)

\* mutant: the domain transition is advised whatever the skills score
recommendations_of_any_skills(missing_skills, exp_score, domain_score, skills_score) ==
    (IF missing_skills # <<>>
     THEN << <<"Consider training in", SliceTo(missing_skills, 3)>> >> ELSE <<>>)
    \o (IF RatLess(exp_score, Rat(6, 10))
        THEN << <<"Consider for junior/training role or mentorship program">> >>
        ELSE <<>>)
    \o (IF RatLess(domain_score, Rat(5, 10))
        THEN << <<"Skills transferable, domain transition possible with training">> >>
        ELSE <<>>)

\* lines 345-353: the recommendations, in the order they are appended
recommendations_of(missing_skills, exp_score, domain_score, skills_score) ==
    (IF missing_skills # <<>>
     THEN << <<"Consider training in", SliceTo(missing_skills, 3)>> >> ELSE <<>>)
    \o (IF RatLess(exp_score, Rat(6, 10))
        THEN << <<"Consider for junior/training role or mentorship program">> >>
        ELSE <<>>)
    \o (IF RatLess(domain_score, Rat(5, 10)) /\ RatLess(Rat(6, 10), skills_score)
        THEN << <<"Skills transferable, domain transition possible with training">> >>
        ELSE <<>>)

\* mutant: the experience is judged first
notes_experience_first(domain_note, skills_note, exp_note) ==
    <<exp_note, domain_note, skills_note>>

\* lines 329-343: the three notes in the order they are appended
notes_in_order(domain_note, skills_note, exp_note) ==
    <<domain_note, skills_note, exp_note>>

\* mutant: experience is a strength from 0.7, like the other two
strength_threshold_uniform(dim) == Rat(7, 10)

\* the score from which a dimension is a strength (lines 330, 335, 340)
strength_threshold(dim) ==
    IF dim = "experience" THEN Rat(8, 10) ELSE Rat(7, 10)

analyze_match_details(cand, job_requirements) ==
    LET domain_score == calculate_domain_match(Get(cand, "domain", General),
                                               Get(job_requirements, "domain", General))
        candidate_skills == Get(cand, "skills", <<>>)
        required_skills  == Get(job_requirements, "required_skills", <<>>)
        matched_skills == matched_skills_of(candidate_skills, required_skills)
        missing_skills == missing_skills_of(candidate_skills, required_skills)
        skills_score == calculate_skills_match(candidate_skills, required_skills)
        exp_score == calculate_experience_match(Get(cand, "experience_years", 0),
                                                Get(job_requirements, "required_experience", 0))
        domain_note ==
            IF RatLeq(strength_threshold("domain"), domain_score)
            THEN [dim |-> "domain", as |-> "strength",
                  text |-> <<"Strong domain match", Get(cand, "domain", General)>>]
            ELSE [dim |-> "domain", as |-> "gap",
                  text |-> <<"Domain mismatch", Get(cand, "domain", General),
                             Get(job_requirements, "domain", General)>>]
        skills_note ==
            IF RatLeq(strength_threshold("skills"), skills_score)
            THEN [dim |-> "skills", as |-> "strength",
                  text |-> <<"Good skills match", Len(matched_skills), Len(required_skills)>>]
            ELSE [dim |-> "skills", as |-> "gap",
                  text |-> <<"Missing key skills", SliceTo(missing_skills, 3)>>]
        exp_note ==
            IF RatLeq(strength_threshold("experience"), exp_score)
            THEN [dim |-> "experience", as |-> "strength",
                  text |-> <<"Sufficient experience", Get(cand, "experience_years", 0)>>]
            ELSE [dim |-> "experience", as |-> "gap",
                  text |-> <<"Experience gap", Get(cand, "experience_years", 0),
                             Get(job_requirements, "required_experience", 0)>>]
        notes == notes_in_order(domain_note, skills_note, exp_note)
        IsStrength(x) == x.as = "strength"
        IsGap(x) == x.as = "gap"
    IN  [overall_score |-> analysis_overall_score(cand, job_requirements),
         domain_analysis |->
            [score |-> domain_score,
             candidate_domain |-> Get(cand, "domain", General),
             required_domain |-> Get(job_requirements, "domain", General),
             match_level |-> get_match_level(domain_score)],
         skills_analysis |->
            [score |-> skills_score,
             matched_skills |-> matched_skills,
             missing_skills |-> missing_skills,
             additional_skills |-> additional_skills_of(candidate_skills, matched_skills),
             match_level |-> get_match_level(skills_score)],
         experience_analysis |->
            [score |-> exp_score,
             candidate_experience |-> Get(cand, "experience_years", 0),
             required_experience |-> Get(job_requirements, "required_experience", 0),
             match_level |-> get_match_level(exp_score)],
         strengths |-> SelectSeq(notes, IsStrength),
         gaps |-> SelectSeq(notes, IsGap),
         recommendations |->
            recommendations_of(missing_skills, exp_score, domain_score, skills_score)]

-----------------------------------------------------------------------------
(* Ranker.  A list holds objects [id, d]: id is the object's identity, d    *)
(* its dict.                                                               *)

Reverse(list) == [i \in 1..Len(list) |-> list[Len(list) + 1 - i]]

\* mutant: an entry without a score sorts as a full score
ScoreKeyMissingAsOne(x) == Get(x.d, "match_score", One)

\* the sort key of line 230
ScoreKey(x) == Get(x.d, "match_score", Zero)

\* x put behind every entry of the ascending list whose key is not greater
InsertByKey(x, list) ==
    LET after == {i \in 1..Len(list) : ~RatLess(ScoreKey(x), ScoreKey(list[i]))}
        k == IF after = {} THEN 0 ELSE CHOOSE i \in after : \A j \in after : j <= i
    IN  SubSeq(list, 1, k) \o <<x>> \o SubSeq(list, k + 1, Len(list))

\* the stable ascending sort under list.sort()
RECURSIVE SortAscending(_)
SortAscending(list) ==
    IF list = <<>> THEN <<>>
    ELSE InsertByKey(list[Len(list)], SortAscending(SubSeq(list, 1, Len(list) - 1)))

\* mutant: sorted ascending and the result reversed (sorted(...)[::-1])
rank_candidates_reversed_after(candidates_with_scores) ==
    Reverse(SortAscending(candidates_with_scores))

\* sorted(list, key=..., reverse=True): reversed, sorted ascending, reversed
rank_candidates(candidates_with_scores) ==
    Reverse(SortAscending(Reverse(candidates_with_scores)))

\* mutant: a score stored in the record is kept (setdefault)
attach_score_keep_stored(d, match_score) ==
    IF "match_score" \in DOMAIN d THEN d ELSE SetItem(d, "match_score", match_score)

\* line 251: candidate_with_score['match_score'] = match_score
attach_score(d, match_score) == SetItem(d, "match_score", match_score)

\* mutant: the score is set on the candidate itself, no copy is made
score_candidate_in_place(c, fresh_id, job_requirements) ==
    LET match_score == calculate_match_score(c.d, job_requirements)
        obj == [id |-> c.id, d |-> SetItem(c.d, "match_score", match_score)]
    IN  [input |-> obj, scored |-> obj]

\* lines 249-252 for one candidate: `input` is the candidate object after the
\* loop body, `scored` the object appended to candidates_with_scores
score_candidate(c, fresh_id, job_requirements) ==
    LET match_score == calculate_match_score(c.d, job_requirements)
    IN  [input  |-> c,
         scored |-> [id |-> fresh_id, d |-> attach_score(c.d, match_score)]]

\* lines 246-252: every candidate scored, the copies numbered after the inputs
scored_candidates(cands, job_requirements) ==
    [i \in 1..Len(cands) |-> score_candidate(cands[i], Len(cands) + i, job_requirements)]

\* mutant: one entry too many is returned (ranked[:top_n + 1])
find_best_matches_one_more(cands, job_requirements, n) ==
    LET done == scored_candidates(cands, job_requirements)
        candidates_with_scores == [i \in 1..Len(done) |-> done[i].scored]
    IN  [inputs |-> [i \in 1..Len(done) |-> done[i].input],
         result |-> SliceTo(rank_candidates(candidates_with_scores), n + 1)]

find_best_matches(cands, job_requirements, n) ==
    LET done == scored_candidates(cands, job_requirements)
        candidates_with_scores == [i \in 1..Len(done) |-> done[i].scored]
    IN  [inputs |-> [i \in 1..Len(done) |-> done[i].input],
         result |-> SliceTo(rank_candidates(candidates_with_scores), n)]

-----------------------------------------------------------------------------
(* Inputs.  An optional dict key is a sequence of length at most one:      *)
(* <<>> when the key is absent, <<v>> when it is present with value v.     *)

SqlSp  == <<"s","q","l"," ">>
MySQL  == <<"M","y","S","Q","L">>
Golang == <<"G","o","l","a","n","g">>
SQL    == <<"S","Q","L">>
Sql    == <<"s","q","l">>
Go     == <<"G","o">>
Rust   == <<"R","u","s","t">>
JohnDoe == <<"J","o","h","n">>
RoleText == <<"S","Q","L"," ","B","a","c","k","e","n","d"," ","r","o","l","e">>

\* a dict with the keys whose option is present
MakeDict(keys, opt) == [k \in {x \in keys : opt[x] # <<>>} |-> opt[k][1]]

SkillVocab == {SqlSp, MySQL, Golang}
SkillLists == UNION {[1..k -> SkillVocab] : k \in 0..MaxSkills}

CandidateKeys == {"name", "domain", "skills", "experience_years"}
Candidates ==
    {MakeDict(CandidateKeys, o) :
        o \in [name : {<<JohnDoe>>},
               domain : {<<>>, << <<>> >>, <<Backend>>, <<FullStack>>},
               skills : {<<>>} \cup {<<l>> : l \in SkillLists},
               experience_years : {<<>>} \cup {<<y>> : y \in 0..MaxYears}]}

JobKeys == {"domain", "required_skills", "required_experience", "job_description"}
Jobs ==
    {MakeDict(JobKeys, o) :
        o \in [domain : {<<>>, <<Backend>>},
               required_skills : {<<>>, << <<>> >>, << <<SQL, Sql>> >>,
                                  << <<Go, SQL>> >>, << <<Rust, SQL, Sql>> >>},
               required_experience : {<<>>, <<MaxYears + 1>>},
               job_description : {<<>>, <<RoleText>>}]}

\* further skills
Python      == <<"P","y","t","h","o","n">>
ReactNative == <<"R","e","a","c","t"," ","N","a","t","i","v","e">>
ApacheSpark == <<"A","p","a","c","h","e"," ","S","p","a","r","k">>
Excel       == <<"E","x","c","e","l">>
JavaScript  == <<"J","a","v","a","S","c","r","i","p","t">>
Html        == <<"H","T","M","L">>
Docker      == <<"D","o","c","k","e","r">>

\* the records of test_matching
TensorFlow      == <<"T","e","n","s","o","r","F","l","o","w">>
MachineLearning == <<"M","a","c","h","i","n","e"," ","L","e","a","r","n","i","n","g">>
Aws             == <<"A","W","S">>
LookingFor ==
    <<"L","o","o","k","i","n","g"," ","f","o","r"," ","M","L"," ","e","n","g","i","n","e","e","r"," ","w","i","t","h"," ","P","y","t","h","o","n"," ","a","n","d"," ","T","e","n","s","o","r","F","l","o","w"," ","e","x","p","e","r","i","e","n","c","e">>

test_candidate ==
    MakeDict(CandidateKeys,
             [name |-> <<JohnDoe>>, domain |-> <<MLAI>>,
              skills |-> << <<Python, TensorFlow, MachineLearning, Aws>> >>,
              experience_years |-> <<5>>])

test_job ==
    MakeDict(JobKeys,
             [domain |-> <<MLAI>>,
              required_skills |-> << <<Python, MachineLearning, TensorFlow, Docker>> >>,
              required_experience |-> <<3>>,
              job_description |-> <<LookingFor>>])

\* a candidate record with nothing but a name
bare_candidate ==
    MakeDict(CandidateKeys,
             [name |-> <<JohnDoe>>, domain |-> <<>>, skills |-> <<>>,
              experience_years |-> <<>>])

-----------------------------------------------------------------------------
(* Single-pair calls                                                       *)

Init ==
    /\ \/ candidate \in Candidates /\ job \in Jobs
       \/ candidate \in {test_candidate, bare_candidate} /\ job = test_job
    /\ score = NoResult
    /\ analysis = NoResult
    /\ candidates = <<>>
    /\ top_n = 0
    /\ ranked = NoResult
    /\ best = NoResult
    /\ call = NoResult

\* score = calculate_match_score(candidate, job)
CallCalculateMatchScore ==
    /\ score = NoResult
    /\ score' = calculate_match_score(candidate, job)
    /\ UNCHANGED <<candidate, job, analysis, candidates, top_n, ranked, best, call>>

\* analysis = analyze_match_details(candidate, job)
CallAnalyzeMatchDetails ==
    /\ analysis = NoResult
    /\ analysis' = analyze_match_details(candidate, job)
    /\ UNCHANGED <<candidate, job, score, candidates, top_n, ranked, best, call>>

Next == CallCalculateMatchScore \/ CallAnalyzeMatchDetails

Spec == Init /\ [][Next]_vars

-----------------------------------------------------------------------------
(* List calls                                                              *)

\* the records of a candidate list: a score stored earlier or none, and
\* experience that meets the requirement or none
ListCandidates ==
    {MakeDict({"name", "experience_years", "match_score"}, o) :
        o \in [name : {<<JohnDoe>>},
               experience_years : {<<>>, <<MaxYears>>},
               match_score : {<<>>, <<Zero>>, <<Rat(1, 2)>>}]}

CandidateLists ==
    UNION {{[i \in 1..k |-> [id |-> i, d |-> l[i]]] : l \in [1..k -> ListCandidates]} :
           k \in 0..MaxCands}

ListJob ==
    MakeDict(JobKeys, [domain |-> <<Backend>>, required_skills |-> <<>>,
                       required_experience |-> <<MaxYears>>, job_description |-> <<>>])

TopNs == (0 - 1)..(MaxCands + 1)

InitRank ==
    /\ candidate = MakeDict(CandidateKeys, [name |-> <<JohnDoe>>, domain |-> <<>>,
                                            skills |-> <<>>, experience_years |-> <<>>])
    /\ job = ListJob
    /\ score = NoResult
    /\ analysis = NoResult
    /\ candidates \in CandidateLists
    /\ top_n = 0
    /\ ranked = NoResult
    /\ best = NoResult
    /\ call = NoResult

\* ranked = rank_candidates(candidates)
CallRankCandidates ==
    /\ ranked = NoResult
    /\ ranked' = [list |-> rank_candidates(candidates)]
    /\ UNCHANGED <<candidate, job, score, analysis, candidates, top_n, best, call>>

\* best = find_best_matches(candidates, job, n)
CallFindBestMatches ==
    /\ best = NoResult
    /\ \E n \in TopNs :
          LET ret == find_best_matches(candidates, job, n)
          IN  /\ top_n' = n
              /\ candidates' = ret.inputs
              /\ best' = [list |-> ret.result]
    /\ UNCHANGED <<candidate, job, score, analysis, ranked, call>>

NextRank == CallRankCandidates \/ CallFindBestMatches

SpecRank == InitRank /\ [][NextRank]_vars

-----------------------------------------------------------------------------
(* Domain classifier (nlp_analyzer.classify_domain)                        *)

\* the keyword table, a dict: its entries in insertion order
domain_keywords ==
  << [domain |-> MLAI, keywords |->
        << <<"m","a","c","h","i","n","e"," ","l","e","a","r","n","i","n","g">>,
           <<"d","e","e","p"," ","l","e","a","r","n","i","n","g">>,
           <<"t","e","n","s","o","r","f","l","o","w">>,
           <<"p","y","t","o","r","c","h">>,
           <<"k","e","r","a","s">>,
           <<"s","c","i","k","i","t","-","l","e","a","r","n">>,
           <<"n","e","u","r","a","l"," ","n","e","t","w","o","r","k","s">>,
           <<"n","l","p">>,
           <<"c","o","m","p","u","t","e","r"," ","v","i","s","i","o","n">>,
           <<"a","i">>,
           <<"t","r","a","n","s","f","o","r","m","e","r","s">>,
           <<"b","e","r","t">>,
           <<"g","p","t">>,
           <<"o","p","e","n","c","v">>,
           <<"p","a","n","d","a","s">>,
           <<"n","u","m","p","y">>,
           <<"m","l">> >>],
     [domain |-> DataEng, keywords |->
        << <<"h","a","d","o","o","p">>,
           <<"s","p","a","r","k">>,
           <<"k","a","f","k","a">>,
           <<"a","i","r","f","l","o","w">>,
           <<"e","t","l">>,
           <<"d","a","t","a"," ","p","i","p","e","l","i","n","e">>,
           <<"s","n","o","w","f","l","a","k","e">>,
           <<"d","a","t","a","b","r","i","c","k","s">>,
           <<"b","i","g"," ","d","a","t","a">>,
           <<"d","a","t","a"," ","w","a","r","e","h","o","u","s","e">>,
           <<"d","a","t","a"," ","l","a","k","e">>,
           <<"a","p","a","c","h","e"," ","s","p","a","r","k">>,
           <<"h","i","v","e">>,
           <<"p","i","g">>,
           <<"s","c","a","l","a">>,
           <<"s","q","l">> >>],
     [domain |-> Frontend, keywords |->
        << <<"r","e","a","c","t">>,
           <<"a","n","g","u","l","a","r">>,
           <<"v","u","e">>,
           <<"j","a","v","a","s","c","r","i","p","t">>,
           <<"t","y","p","e","s","c","r","i","p","t">>,
           <<"h","t","m","l">>,
           <<"c","s","s">>,
           <<"s","a","s","s">>,
           <<"l","e","s","s">>,
           <<"w","e","b","p","a","c","k">>,
           <<"b","a","b","e","l">>,
           <<"n","p","m">>,
           <<"y","a","r","n">>,
           <<"j","q","u","e","r","y">>,
           <<"b","o","o","t","s","t","r","a","p">>,
           <<"t","a","i","l","w","i","n","d">>,
           <<"n","e","x","t",".","j","s">>,
           <<"n","u","x","t",".","j","s">>,
           <<"s","v","e","l","t","e">> >>],
     [domain |-> Backend, keywords |->
        << <<"n","o","d","e",".","j","s">>,
           <<"e","x","p","r","e","s","s">>,
           <<"d","j","a","n","g","o">>,
           <<"f","l","a","s","k">>,
           <<"f","a","s","t","a","p","i">>,
           <<"s","p","r","i","n","g">>,
           <<"s","p","r","i","n","g"," ","b","o","o","t">>,
           <<"l","a","r","a","v","e","l">>,
           <<"r","a","i","l","s">>,
           <<"a","s","p",".","n","e","t">>,
           <<"p","h","p">>,
           <<"j","a","v","a">>,
           <<"p","y","t","h","o","n">>,
           <<"c","#">>,
           <<"g","o">>,
           <<"r","u","s","t">> >>],
     [domain |-> DevOps, keywords |->
        << <<"d","o","c","k","e","r">>,
           <<"k","u","b","e","r","n","e","t","e","s">>,
           <<"j","e","n","k","i","n","s">>,
           <<"g","i","t","l","a","b"," ","c","i">>,
           <<"g","i","t","h","u","b"," ","a","c","t","i","o","n","s">>,
           <<"t","e","r","r","a","f","o","r","m">>,
           <<"a","n","s","i","b","l","e">>,
           <<"c","h","e","f">>,
           <<"p","u","p","p","e","t">>,
           <<"a","w","s">>,
           <<"a","z","u","r","e">>,
           <<"g","c","p">>,
           <<"l","i","n","u","x">>,
           <<"b","a","s","h">>,
           <<"s","h","e","l","l"," ","s","c","r","i","p","t","i","n","g">>,
           <<"m","o","n","i","t","o","r","i","n","g">> >>],
     [domain |-> Mobile, keywords |->
        << <<"i","o","s">>,
           <<"a","n","d","r","o","i","d">>,
           <<"s","w","i","f","t">>,
           <<"k","o","t","l","i","n">>,
           <<"r","e","a","c","t"," ","n","a","t","i","v","e">>,
           <<"f","l","u","t","t","e","r">>,
           <<"x","a","m","a","r","i","n">>,
           <<"i","o","n","i","c">>,
           <<"c","o","r","d","o","v","a">>,
           <<"m","o","b","i","l","e"," ","d","e","v","e","l","o","p","m","e","n","t">> >>],
     [domain |-> FullStack, keywords |->
        << <<"f","u","l","l"," ","s","t","a","c","k">>,
           <<"f","u","l","l","s","t","a","c","k">>,
           <<"m","e","a","n">>,
           <<"m","e","r","n">>,
           <<"l","a","m","p">>,
           <<"d","j","a","n","g","o"," ","+"," ","r","e","a","c","t">>,
           <<"n","o","d","e"," ","+"," ","r","e","a","c","t">> >>] >>

\* score of one domain: the (keyword, skill) pairs with keyword in skill
domain_score(keywords, skills_lower) ==
    Cardinality({p \in (1..Len(keywords)) \X (1..Len(skills_lower)) :
                    StrIn(keywords[p[1]], skills_lower[p[2]])})

\* max() of a non-empty set of naturals
MaxOf(S) == CHOOSE x \in S : \A y \in S : y <= x

\* mutant: the first domain with any match is returned
classify_domain_first_matching(skills) ==
    IF skills = <<>> THEN General
    ELSE LET skills_lower == [i \in 1..Len(skills) |-> lower(skills[i])]
             domain_scores == [k \in 1..Len(domain_keywords) |->
                                  domain_score(domain_keywords[k].keywords, skills_lower)]
             max_score == MaxOf({domain_scores[k] : k \in 1..Len(domain_keywords)})
         IN  IF max_score = 0 THEN General
             ELSE LET first == CHOOSE k \in 1..Len(domain_keywords) :
                                  /\ domain_scores[k] > 0
                                  /\ \A j \in 1..(k - 1) : domain_scores[j] = 0
                  IN  domain_keywords[first].domain

\* mutant: of the domains with the highest score the last one is returned
classify_domain_last_maximum(skills) ==
    IF skills = <<>> THEN General
    ELSE LET skills_lower == [i \in 1..Len(skills) |-> lower(skills[i])]
             domain_scores == [k \in 1..Len(domain_keywords) |->
                                  domain_score(domain_keywords[k].keywords, skills_lower)]
             max_score == MaxOf({domain_scores[k] : k \in 1..Len(domain_keywords)})
         IN  IF max_score = 0 THEN General
             ELSE LET last == CHOOSE k \in 1..Len(domain_keywords) :
                                  /\ domain_scores[k] = max_score
                                  /\ \A j \in (k + 1)..Len(domain_keywords) :
                                         domain_scores[j] # max_score
                  IN  domain_keywords[last].domain

classify_domain(skills) ==
    IF skills = <<>> THEN General
    ELSE LET skills_lower == [i \in 1..Len(skills) |-> lower(skills[i])]
             domain_scores == [k \in 1..Len(domain_keywords) |->
                                  domain_score(domain_keywords[k].keywords, skills_lower)]
             max_score == MaxOf({domain_scores[k] : k \in 1..Len(domain_keywords)})
         IN  IF max_score = 0 THEN General
             ELSE LET first == CHOOSE k \in 1..Len(domain_keywords) :
                                  /\ domain_scores[k] = max_score
                                  /\ \A j \in 1..(k - 1) : domain_scores[j] # max_score
                  IN  domain_keywords[first].domain

-----------------------------------------------------------------------------
(* Direct calls of one function                                            *)

FrontendLower      == <<"f","r","o","n","t","e","n","d">>
FullStackDeveloper == <<"F","u","l","l"," ","S","t","a","c","k"," ","D","e","v">>
CloudLabel         == <<"C","l","o","u","d">>

\* domain labels handed to calculate_domain_match: the classifier's labels,
\* the empty label, a case variant, a label that contains 'full stack' and
\* a label outside the classifier's set
DomainLabels ==
    {<<>>, General, MLAI, DataEng, Frontend, Backend, DevOps, Mobile, FullStack,
     FrontendLower, FullStackDeveloper, CloudLabel}

InitFn ==
    /\ candidate = MakeDict(CandidateKeys, [name |-> <<JohnDoe>>, domain |-> <<>>,
                                            skills |-> <<>>, experience_years |-> <<>>])
    /\ job = ListJob
    /\ score = NoResult
    /\ analysis = NoResult
    /\ candidates = <<>>
    /\ top_n = 0
    /\ ranked = NoResult
    /\ best = NoResult
    /\ call = NoResult

\* calculate_domain_match(a, b)
CallDomainMatch ==
    /\ call = NoResult
    /\ \E a \in DomainLabels, b \in DomainLabels :
          call' = [fn |-> "calculate_domain_match", args |-> <<a, b>>,
                   result |-> calculate_domain_match(a, b)]
    /\ UNCHANGED <<candidate, job, score, analysis, candidates, top_n, ranked, best>>

\* required skill lists handed to calculate_skills_match
RequiredLists ==
    {<<>>, <<SQL>>, <<SQL, Sql>>, <<Go, SQL>>, <<Rust>>, <<Rust, SQL, Sql>>,
     <<Golang, MySQL>>}

\* calculate_skills_match(c, r)
CallSkillsMatch ==
    /\ call = NoResult
    /\ \E c \in SkillLists, r \in RequiredLists :
          call' = [fn |-> "calculate_skills_match", args |-> <<c, r>>,
                   result |-> calculate_skills_match(c, r)]
    /\ UNCHANGED <<candidate, job, score, analysis, candidates, top_n, ranked, best>>

\* calculate_experience_match(c, r)
CallExperienceMatch ==
    /\ call = NoResult
    /\ \E c \in (0 - 1)..MaxExperience, r \in (0 - 1)..MaxExperience :
          call' = [fn |-> "calculate_experience_match", args |-> <<c, r>>,
                   result |-> calculate_experience_match(c, r)]
    /\ UNCHANGED <<candidate, job, score, analysis, candidates, top_n, ranked, best>>

Empty == <<>>
KeywordVocab == {Empty, Sql, SQL, Rust}
KeywordLists == UNION {[1..k -> KeywordVocab] : k \in 0..MaxKeywords}

\* calculate_text_similarity(k, d)
CallTextSimilarity ==
    /\ call = NoResult
    /\ \E k \in KeywordLists, d \in {Empty, RoleText} :
          call' = [fn |-> "calculate_text_similarity", args |-> <<k, d>>,
                   result |-> calculate_text_similarity(k, d)]
    /\ UNCHANGED <<candidate, job, score, analysis, candidates, top_n, ranked, best>>


\* skills handed to classify_domain
ClassifierVocab == {Python, ReactNative, ApacheSpark, Excel, JavaScript, Html, Docker}
ClassifierLists == UNION {[1..k -> ClassifierVocab] : k \in 0..MaxSkills}

\* classify_domain(s)
CallClassifyDomain ==
    /\ call = NoResult
    /\ \E s \in ClassifierLists :
          call' = [fn |-> "classify_domain", args |-> <<s>>,
                   result |-> classify_domain(s)]
    /\ UNCHANGED <<candidate, job, score, analysis, candidates, top_n, ranked, best>>

NextFn ==
    \/ CallDomainMatch
    \/ CallSkillsMatch
    \/ CallExperienceMatch
    \/ CallTextSimilarity
    \/ CallClassifyDomain

SpecFn == InitFn /\ [][NextFn]_vars

-----------------------------------------------------------------------------
(* Properties of the list calls (checked under SpecRank)                   *)

Min(a, b) == IF a < b THEN a ELSE b
Max(a, b) == IF a < b THEN b ELSE a

\* the score an entry is ranked by: its 'match_score', 0 when it has none
ScoreOrZero(x) == IF "match_score" \in DOMAIN x.d THEN x.d["match_score"] ELSE Zero

\* the place of the object with identity id in a list
PlaceOf(list, id) == CHOOSE k \in 1..Len(list) : list[k].id = id

\* the input candidate a returned copy was made from
SourceOf(b) == candidates[b.id - Len(candidates)]

\* C3 as stated: for every integer top_n the result has at most top_n
\* entries, and fewer than top_n only when the input has fewer than top_n.
C3_AtMostTopN_AnyInteger ==
    best # NoResult =>
        /\ Len(best.list) <= top_n
        /\ Len(best.list) < top_n => Len(candidates) < top_n

\* C3 amended: for top_n >= 0 the result has min(top_n, len(candidates))
\* entries (at most top_n, fewer only when the input is shorter); for
\* top_n < 0 it is the ranked list without its last -top_n entries.
C3_AtMostTopN_NonNegative ==
    best # NoResult =>
        /\ top_n >= 0 => Len(best.list) = Min(top_n, Len(candidates))
        /\ top_n < 0  => Len(best.list) = Max(Len(candidates) + top_n, 0)

\* a call that cuts the ranking: more candidates than a positive top_n
C3_Witness ==
    /\ best # NoResult
    /\ top_n > 0
    /\ Len(candidates) > top_n
    /\ Len(best.list) = top_n

\* C4: the returned entries are in non-increasing order of their attached
\* score; each attached score is calculate_match_score of the candidate it
\* was copied from against the same job, whatever score that record held;
\* no candidate left out scores strictly higher than a returned one.
C4_BestSortedAndScored ==
    best # NoResult =>
        LET out == best.list
            returned == {out[k].id - Len(candidates) : k \in 1..Len(out)}
        IN  /\ \A k \in 1..(Len(out) - 1) :
                   ~RatLess(out[k].d["match_score"], out[k + 1].d["match_score"])
            /\ \A k \in 1..Len(out) :
                   /\ "match_score" \in DOMAIN out[k].d
                   /\ out[k].d["match_score"] = calculate_match_score(SourceOf(out[k]).d, job)
            /\ \A i \in (1..Len(candidates)) \ returned : \A k \in 1..Len(out) :
                   ~RatLess(out[k].d["match_score"],
                            calculate_match_score(candidates[i].d, job))

\* a cut ranking of candidates with different scores, where a returned
\* candidate held a stored score other than the computed one
C4_Witness ==
    /\ best # NoResult
    /\ Len(best.list) >= 2
    /\ Len(best.list) < Len(candidates)
    /\ RatLess(best.list[Len(best.list)].d["match_score"], best.list[1].d["match_score"])
    /\ \E k \in 1..Len(best.list) :
          /\ "match_score" \in DOMAIN SourceOf(best.list[k]).d
          /\ SourceOf(best.list[k]).d["match_score"] # best.list[k].d["match_score"]

\* C5: rank_candidates is stable: of two input entries with equal scores
\* (no score counting as 0) the one first in the input is first in the output.
C5_RankStable ==
    ranked # NoResult =>
        \A i, j \in 1..Len(candidates) :
            (i < j /\ ScoreOrZero(candidates[i]) = ScoreOrZero(candidates[j]))
                => PlaceOf(ranked.list, candidates[i].id) < PlaceOf(ranked.list, candidates[j].id)

\* a ranking that moves an entry over a tie: an entry without a score, then
\* one with score 0, then a higher one
C5_Witness ==
    /\ ranked # NoResult
    /\ Len(candidates) = 3
    /\ "match_score" \notin DOMAIN candidates[1].d
    /\ "match_score" \in DOMAIN candidates[2].d /\ candidates[2].d["match_score"] = Zero
    /\ RatLess(Zero, ScoreOrZero(candidates[3]))
    /\ ranked.list = <<candidates[3], candidates[1], candidates[2]>>

\* C6: rank_candidates returns a permutation of its input in non-increasing
\* order of score, an entry without a score ordered as if its score were 0.
C6_RankPermutationSorted ==
    ranked # NoResult =>
        /\ Len(ranked.list) = Len(candidates)
        /\ \A i \in 1..Len(candidates) :
               Cardinality({k \in 1..Len(ranked.list) : ranked.list[k] = candidates[i]}) = 1
        /\ \A k \in 1..(Len(ranked.list) - 1) :
               ~RatLess(ScoreOrZero(ranked.list[k]), ScoreOrZero(ranked.list[k + 1]))

\* a ranking that moves a scored entry in front of an entry without a score
C6_Witness ==
    /\ ranked # NoResult
    /\ Len(candidates) >= 2
    /\ "match_score" \notin DOMAIN candidates[1].d
    /\ RatLess(Zero, ScoreOrZero(candidates[2]))
    /\ ranked.list[1] = candidates[2]

\* C7: find_best_matches does not mutate its input: the list keeps its
\* length and order and every record its fields and values.
C7_InputsUnchanged == [][candidates' = candidates]_vars

\* a call that attached scores to copies of records that hold none, or another
C7_Witness ==
    /\ best # NoResult
    /\ Len(best.list) >= 2
    /\ \E i \in 1..Len(candidates) : "match_score" \notin DOMAIN candidates[i].d
    /\ \E i \in 1..Len(candidates) :
          /\ "match_score" \in DOMAIN candidates[i].d
          /\ candidates[i].d["match_score"] # calculate_match_score(candidates[i].d, job)

-----------------------------------------------------------------------------
(* Properties of the single-pair calls (checked under Spec)                *)

\* the four field scores of the pair in hand; an absent key is read as the
\* code reads it: domain 'General' for the domain match and '' as a keyword,
\* no skills, 0 years, an empty description
DomainScore ==
    calculate_domain_match(Get(candidate, "domain", General), Get(job, "domain", General))
SkillsScore ==
    calculate_skills_match(Get(candidate, "skills", <<>>), Get(job, "required_skills", <<>>))
ExperienceScore ==
    calculate_experience_match(Get(candidate, "experience_years", 0),
                               Get(job, "required_experience", 0))
TextScore ==
    calculate_text_similarity(Get(candidate, "skills", <<>>) \o <<Get(candidate, "domain", <<>>)>>,
                              Get(job, "job_description", <<>>))

\* set of the elements of a list
Elements(list) == {list[i] : i \in 1..Len(list)}

\* C1: for every candidate and job record, fields absent or empty included,
\* calculate_match_score returns a value v with 0 <= v <= 1.
C1_ScoreInUnit ==
    score # NoResult => (RatLeq(Zero, score) /\ RatLeq(score, One))

\* a score computed for records with every optional field absent
C1_Witness ==
    /\ score # NoResult
    /\ DOMAIN candidate = {"name"}
    /\ DOMAIN job = {}
    /\ score = Rat(7, 10)

\* C2: the score equals 0.3*D + 0.4*S + 0.2*E + 0.1*T; each of D, S, E, T
\* lies in [0,1], so the clamp to [0,1] never changes the weighted sum.
C2_WeightedCombination ==
    score # NoResult =>
        LET sum == RatAdd(RatAdd(RatMul(Rat(3, 10), DomainScore),
                                 RatMul(Rat(4, 10), SkillsScore)),
                          RatAdd(RatMul(Rat(2, 10), ExperienceScore),
                                 RatMul(Rat(1, 10), TextScore)))
        IN  /\ InUnit(DomainScore) /\ InUnit(SkillsScore)
            /\ InUnit(ExperienceScore) /\ InUnit(TextScore)
            /\ InUnit(sum)
            /\ score = sum

\* a score made of four different, partly fractional field scores
C2_Witness ==
    /\ score # NoResult
    /\ DomainScore = Rat(7, 10)
    /\ SkillsScore = Rat(2, 3)
    /\ TextScore = Rat(1, 2)
    /\ RatLess(ExperienceScore, One)

\* C8: the 'overall_score' of analyze_match_details(candidate, job) equals
\* calculate_match_score(candidate, job).
C8_OverallScoreIsMatchScore ==
    (analysis # NoResult /\ score # NoResult) => analysis.overall_score = score

\* both calls made on a pair whose score is strictly inside (0,1) and whose
\* text score counts
C8_Witness ==
    /\ analysis # NoResult
    /\ score # NoResult
    /\ RatLess(Zero, score) /\ RatLess(score, One)
    /\ RatLess(Zero, TextScore)
    /\ analysis.overall_score = score

\* C9: matched_skills and missing_skills partition the required skills:
\* compared case-insensitively as sets, their union is required_skills and
\* their intersection is empty.
C9_SkillsPartition ==
    analysis # NoResult =>
        LET matched  == {lower(x) : x \in Elements(analysis.skills_analysis.matched_skills)}
            missing  == {lower(x) : x \in Elements(analysis.skills_analysis.missing_skills)}
            required == {lower(x) : x \in Elements(Get(job, "required_skills", <<>>))}
        IN  /\ matched \cup missing = required
            /\ matched \cap missing = {}

\* an analysis of a requirement with case-variant duplicates, some required
\* skills matched and some missing
C9_Witness ==
    /\ analysis # NoResult
    /\ Get(job, "required_skills", <<>>) = <<Rust, SQL, Sql>>
    /\ analysis.skills_analysis.matched_skills = <<SQL, Sql>>
    /\ analysis.skills_analysis.missing_skills = <<Rust>>

-----------------------------------------------------------------------------
(* Properties of the direct calls (checked under SpecFn)                   *)

IsCall(fn) == call # NoResult /\ call.fn = fn

\* a domain is listed in the relation table under the other, looked up by
\* required domain and then by candidate domain
Related(cd, rd) ==
    ListHas(domain_relationships(rd), cd) \/ ListHas(domain_relationships(cd), rd)

\* one domain contains 'full stack' and the other is 'frontend' or 'backend'
FullStackCase(cd, rd) ==
    \/ StrIn(full_stack, cd) /\ rd \in {frontend, backend}
    \/ StrIn(full_stack, rd) /\ cd \in {frontend, backend}

\* C11: for two non-empty labels calculate_domain_match returns 1.0 when they
\* are equal ignoring case, 0.7 when they differ and one is listed under the
\* other in the relation table, and 0.2 when they differ, are unrelated in
\* both directions and neither full-stack special case applies.
C11_DomainMatchValues ==
    (IsCall("calculate_domain_match") /\ call.args[1] # <<>> /\ call.args[2] # <<>>) =>
        LET cd == lower(call.args[1])
            rd == lower(call.args[2])
        IN  /\ cd = rd => call.result = Rat(10, 10)
            /\ (cd # rd /\ Related(cd, rd)) => call.result = Rat(7, 10)
            /\ (cd # rd /\ ~Related(cd, rd) /\ ~FullStackCase(cd, rd))
                   => call.result = Rat(2, 10)

\* candidate "Frontend" against required "DevOps": unrelated, 0.2
C11_Witness ==
    /\ IsCall("calculate_domain_match")
    /\ call.args = <<Frontend, DevOps>>
    /\ call.result = Rat(2, 10)

\* C12: calculate_domain_match returns 0.8 whenever one of the two domains
\* contains 'full stack' and the other is 'frontend' or 'backend', in either
\* direction, ignoring case.
C12_FullStackIsPointEight ==
    (IsCall("calculate_domain_match")
        /\ FullStackCase(lower(call.args[1]), lower(call.args[2])))
        => call.result = Rat(8, 10)

\* a key is missing from a dict: absent, or present and empty
Missing(d, key) == key \notin DOMAIN d \/ d[key] = <<>>

\* C13: when the candidate or the job has no domain (field absent or empty),
\* the domain score that enters calculate_match_score and that
\* analyze_match_details reports is the neutral 0.5.
C13_MissingDomainIsNeutral ==
    (Missing(candidate, "domain") \/ Missing(job, "domain")) =>
        /\ analysis # NoResult => analysis.domain_analysis.score = Rat(5, 10)
        /\ score # NoResult =>
               score = RatAdd(RatAdd(RatMul(Rat(3, 10), Rat(5, 10)),
                                     RatMul(Rat(4, 10), SkillsScore)),
                              RatAdd(RatMul(Rat(2, 10), ExperienceScore),
                                     RatMul(Rat(1, 10), TextScore)))

\* a skill as the skills matcher compares it: case and surrounding
\* whitespace ignored
Norm(skill) == strip(lower(skill))

\* some candidate skill equals the required skill, case and surrounding
\* whitespace ignored
HasEqual(r, cs) == \E i \in 1..Len(cs) : Norm(cs[i]) = Norm(r)

\* some candidate skill contains the required skill or is contained in it
HasOverlap(r, cs) ==
    \E i \in 1..Len(cs) : StrIn(Norm(r), Norm(cs[i])) \/ StrIn(Norm(cs[i]), Norm(r))

\* twice the credit of a required skill: 2 exact, 1 partial, 0 none
Credit2(r, cs) ==
    IF HasEqual(r, cs) THEN 2
    ELSE IF Len(Norm(r)) > 2 /\ HasOverlap(r, cs) THEN 1
    ELSE 0

RECURSIVE SumCredit2(_, _)
SumCredit2(rs, cs) ==
    IF rs = <<>> THEN 0 ELSE Credit2(Head(rs), cs) + SumCredit2(Tail(rs), cs)

\* C14: for non-empty lists calculate_skills_match is
\* (exact + 0.5*partial) / len(required), each required skill counted once:
\* exact if some candidate skill equals it ignoring case and surrounding
\* whitespace, else partial if it is longer than 2 characters and overlaps a
\* candidate skill, else not at all; the result is in [0,1].
C14_SkillsMatchFormula ==
    (IsCall("calculate_skills_match") /\ call.args[1] # <<>> /\ call.args[2] # <<>>) =>
        LET total2 == SumCredit2(call.args[2], call.args[1])
        IN  /\ call.result.n * 2 * Len(call.args[2]) = total2 * call.result.d
            /\ 0 <= total2 /\ total2 <= 2 * Len(call.args[2])

\* a required list with one exact match (by strip), one skill of 2
\* characters that a candidate skill contains, and so a score of 1/2
C14_Witness ==
    /\ IsCall("calculate_skills_match")
    /\ call.args = << <<SqlSp, Golang>>, <<Go, SQL>> >>
    /\ call.result = Rat(1, 2)

\* C15: calculate_skills_match is 0.5 when nothing is required, 0.0 when
\* something is required and the candidate has no skills, 0.0 when something
\* is required and no required skill equals, contains or is contained in a
\* candidate skill, 1.0 when every required skill has an equal candidate
\* skill (skills compared as the matcher compares them).
C15_SkillsMatchCases ==
    IsCall("calculate_skills_match") =>
        LET cs == call.args[1]
            rs == call.args[2]
        IN  /\ rs = <<>> => call.result = Rat(5, 10)
            /\ (rs # <<>> /\ cs = <<>>) => call.result = Zero
            /\ (rs # <<>> /\ \A i \in 1..Len(rs) : ~HasOverlap(rs[i], cs))
                   => call.result = Zero
            /\ (rs # <<>> /\ \A i \in 1..Len(rs) : HasEqual(rs[i], cs))
                   => call.result = One

\* nothing required of a candidate without skills: 0.5, not 0.0
C15_Witness ==
    /\ IsCall("calculate_skills_match")
    /\ call.args = << <<>>, <<>> >>
    /\ call.result = Rat(5, 10)

\* C16: calculate_experience_match(c, r) is 1.0 if r <= 0; else 0.1 if
\* c <= 0; else, with ratio = c/r, 1.0 if ratio >= 1.0, 0.9 if >= 0.8, 0.7 if
\* >= 0.6, 0.5 if >= 0.4, 0.3 if >= 0.2 and 0.1 otherwise, breakpoints
\* inclusive.
C16_ExperienceSteps ==
    IsCall("calculate_experience_match") =>
        LET c == call.args[1]
            r == call.args[2]
            tenths == IF r <= 0 THEN 10
                      ELSE IF c <= 0 THEN 1
                      ELSE IF 10 * c >= 10 * r THEN 10
                      ELSE IF 10 * c >= 8 * r THEN 9
                      ELSE IF 10 * c >= 6 * r THEN 7
                      ELSE IF 10 * c >= 4 * r THEN 5
                      ELSE IF 10 * c >= 2 * r THEN 3
                      ELSE 1
        IN  10 * call.result.n = tenths * call.result.d

\* 4 years against 5 required: the ratio is exactly 0.8, the score 0.9
C16_Witness ==
    /\ IsCall("calculate_experience_match")
    /\ call.args = <<4, 5>>
    /\ call.result = Rat(9, 10)

\* number of entries of the keyword list whose lowercased form is a
\* substring of the lowercased description
EntriesIn(keywords, description) ==
    Cardinality({i \in 1..Len(keywords) :
                    StrIn(lower(keywords[i]), lower(description))})

\* the same, empty entries left out
NonEmptyEntriesIn(keywords, description) ==
    Cardinality({i \in 1..Len(keywords) :
                    keywords[i] # <<>> /\ StrIn(lower(keywords[i]), lower(description))})

\* C17 as stated: 0.0 for an empty description or keyword list; otherwise
\* (entries whose lowercased form is a substring of the lowercased
\* description) / len(keywords), a repeated keyword counted per occurrence.
C17_TextSimilarity_AllEntries ==
    IsCall("calculate_text_similarity") =>
        LET k == call.args[1]
            d == call.args[2]
        IN  IF k = <<>> \/ d = <<>> THEN call.result = Zero
            ELSE call.result.n * Len(k) = EntriesIn(k, d) * call.result.d

\* C17 amended: as stated, but an empty keyword is never counted as a match
\* (it still counts in the length of the list).
C17_TextSimilarity_NonEmptyEntries ==
    IsCall("calculate_text_similarity") =>
        LET k == call.args[1]
            d == call.args[2]
        IN  IF k = <<>> \/ d = <<>> THEN call.result = Zero
            ELSE call.result.n * Len(k) = NonEmptyEntriesIn(k, d) * call.result.d

\* a keyword list with a matching keyword and an empty one: 1/2
C17_Witness ==
    /\ IsCall("calculate_text_similarity")
    /\ call.args = << <<Sql, Empty>>, RoleText >>
    /\ call.result = Rat(1, 2)

\* the labels classify_domain may return
ClassifierLabels ==
    {MLAI, DataEng, Frontend, Backend, DevOps, Mobile, FullStack, General}

\* matching (keyword, skill) pairs of the k-th domain for a skill list
PairsOf(k, skills) ==
    Cardinality({p \in (1..Len(domain_keywords[k].keywords)) \X (1..Len(skills)) :
                    StrIn(domain_keywords[k].keywords[p[1]], lower(skills[p[2]]))})

\* C18: classify_domain returns a label of the fixed set; "General" exactly
\* when the skill list is empty or no domain keyword is a substring of any
\* lowercased skill; otherwise a domain whose count of matching
\* (keyword, skill) pairs is the maximum over all domains.
C18_ClassifyDomain ==
    IsCall("classify_domain") =>
        LET skills == call.args[1]
            K == 1..Len(domain_keywords)
            nothing == skills = <<>> \/ \A k \in K : PairsOf(k, skills) = 0
        IN  /\ call.result \in ClassifierLabels
            /\ (call.result = General) <=> nothing
            /\ ~nothing =>
                 \E k \in K : /\ domain_keywords[k].domain = call.result
                              /\ \A j \in K : PairsOf(j, skills) <= PairsOf(k, skills)

\* 'HTML' scores for ML/AI ('ml') and Frontend ('html'), 'Apache Spark'
\* twice for Data Engineering, which is not the first domain with a match
C18_Witness ==
    /\ IsCall("classify_domain")
    /\ call.args = << <<Html, ApacheSpark>> >>
    /\ call.result = DataEng

\* the rearrangements of a list
Permutations(list) ==
    {[i \in 1..Len(list) |-> list[p[i]]] :
        p \in {f \in [1..Len(list) -> 1..Len(list)] :
                  \A i, j \in 1..Len(list) : i # j => f[i] # f[j]}}

\* C26: when several domains reach the same maximum count (> 0),
\* classify_domain returns the first of them in the declaration order ML/AI,
\* Data Engineering, Frontend, Backend, DevOps, Mobile, Full Stack; the
\* result does not change when the skills are reordered.
C26_FirstDeclaredMaximum ==
    IsCall("classify_domain") =>
        LET skills == call.args[1]
            K == 1..Len(domain_keywords)
            best_count == MaxOf({PairsOf(k, skills) : k \in K})
        IN  /\ [k \in K |-> domain_keywords[k].domain]
                  = <<MLAI, DataEng, Frontend, Backend, DevOps, Mobile, FullStack>>
            /\ (skills # <<>> /\ best_count > 0) =>
                  \E k \in K : /\ PairsOf(k, skills) = best_count
                               /\ \A j \in 1..(k - 1) : PairsOf(j, skills) < best_count
                               /\ call.result = domain_keywords[k].domain
            /\ \A other \in Permutations(skills) : classify_domain(other) = call.result

\* Frontend ('react'), Backend ('python') and Mobile ('react native') all
\* score 1: the first declared of them is returned
C26_Witness ==
    /\ IsCall("classify_domain")
    /\ call.args = << <<Python, ReactNative>> >>
    /\ call.result = Frontend

\* C27: calculate_domain_match(a, b) = calculate_domain_match(b, a) for all
\* labels, empty ones and labels outside the fixed set included.
C27_DomainMatchSymmetric ==
    IsCall("calculate_domain_match") =>
        call.result = calculate_domain_match(call.args[2], call.args[1])

\* 'cloud' is listed under 'devops' and has no entry of its own
C27_Witness ==
    /\ IsCall("calculate_domain_match")
    /\ call.args = <<DevOps, CloudLabel>>
    /\ call.result = Rat(7, 10)


-----------------------------------------------------------------------------
(* Properties of the explanation (checked under Spec)                      *)

\* the level the thresholds 0.9, 0.7, 0.5, 0.3 give a score, lower bounds
\* inclusive
LevelOf(s) ==
    IF 10 * s.n >= 9 * s.d THEN "Excellent"
    ELSE IF 10 * s.n >= 7 * s.d THEN "Good"
    ELSE IF 10 * s.n >= 5 * s.d THEN "Fair"
    ELSE IF 10 * s.n >= 3 * s.d THEN "Poor"
    ELSE "Very Poor"

\* C19: every match_level reported by analyze_match_details (domain, skills,
\* experience) is the level of the score reported beside it: >= 0.9
\* Excellent, >= 0.7 Good, >= 0.5 Fair, >= 0.3 Poor, lower Very Poor.
C19_MatchLevels ==
    analysis # NoResult =>
        /\ analysis.domain_analysis.match_level = LevelOf(analysis.domain_analysis.score)
        /\ analysis.skills_analysis.match_level = LevelOf(analysis.skills_analysis.score)
        /\ analysis.experience_analysis.match_level
              = LevelOf(analysis.experience_analysis.score)

\* scores on the bounds 0.7 and 0.5, another below 0.3
C19_Witness ==
    /\ analysis # NoResult
    /\ analysis.domain_analysis.score = Rat(7, 10)
    /\ analysis.domain_analysis.match_level = "Good"
    /\ analysis.skills_analysis.score = Rat(5, 10)
    /\ analysis.skills_analysis.match_level = "Fair"
    /\ analysis.experience_analysis.score = Rat(1, 10)
    /\ analysis.experience_analysis.match_level = "Very Poor"

\* the dimension has an entry in the list of notes
Noted(list, dim) == \E i \in 1..Len(list) : list[i].dim = dim

\* the number of entries the dimension has in both lists together
NotedTimes(dim) ==
    Cardinality({i \in 1..Len(analysis.strengths) : analysis.strengths[i].dim = dim})
    + Cardinality({i \in 1..Len(analysis.gaps) : analysis.gaps[i].dim = dim})

\* C20: the domain is a strength iff domain score >= 0.7 and a gap
\* otherwise, the skills a strength iff skills score >= 0.7 and a gap
\* otherwise, the experience a strength iff experience score >= 0.8 and a
\* gap otherwise; no dimension is both a strength and a gap.
C20_StrengthsAndGaps ==
    analysis # NoResult =>
        LET D == analysis.domain_analysis.score
            S == analysis.skills_analysis.score
            E == analysis.experience_analysis.score
        IN  /\ Noted(analysis.strengths, "domain") <=> (10 * D.n >= 7 * D.d)
            /\ Noted(analysis.gaps, "domain") <=> (10 * D.n < 7 * D.d)
            /\ Noted(analysis.strengths, "skills") <=> (10 * S.n >= 7 * S.d)
            /\ Noted(analysis.gaps, "skills") <=> (10 * S.n < 7 * S.d)
            /\ Noted(analysis.strengths, "experience") <=> (10 * E.n >= 8 * E.d)
            /\ Noted(analysis.gaps, "experience") <=> (10 * E.n < 8 * E.d)
            /\ \A dim \in {"domain", "skills", "experience"} : NotedTimes(dim) = 1

\* domain and experience both score 0.7: the domain is a strength, the
\* experience a gap
C20_Witness ==
    /\ analysis # NoResult
    /\ analysis.domain_analysis.score = Rat(7, 10)
    /\ analysis.experience_analysis.score = Rat(7, 10)
    /\ Noted(analysis.strengths, "domain")
    /\ Noted(analysis.gaps, "experience")

\* list[:3], written out
FirstThree(list) == [i \in 1..Min(3, Len(list)) |-> list[i]]

TrainingAdvice(a) == <<"Consider training in", FirstThree(a.skills_analysis.missing_skills)>>
JuniorAdvice == <<"Consider for junior/training role or mentorship program">>
TransitionAdvice == <<"Skills transferable, domain transition possible with training">>

\* which of the three recommendations an analysis carries
AdviceKinds(a) ==
    {"training" : i \in {i \in 1..Len(a.recommendations) :
                            a.recommendations[i][1] = "Consider training in"}}
    \cup {"junior" : i \in {i \in 1..Len(a.recommendations) :
                               a.recommendations[i] = JuniorAdvice}}
    \cup {"transition" : i \in {i \in 1..Len(a.recommendations) :
                                   a.recommendations[i] = TransitionAdvice}}

\* every subset of the three recommendations is the outcome for some pair
\* of records (found among the candidates with the one skill 'sql ' and the
\* jobs without a description); every pair is an initial state and the
\* analysis of a pair is always enabled, so each outcome is a reachable state
AllAdviceSubsetsOccur ==
    \A sub \in SUBSET {"training", "junior", "transition"} :
        \E c \in {x \in Candidates : Get(x, "skills", <<>>) = <<SqlSp>>},
           j \in {y \in Jobs : "job_description" \notin DOMAIN y} :
            AdviceKinds(analyze_match_details(c, j)) = sub

\* C21: the recommendations are, in this order, a training recommendation
\* naming at most the first 3 missing skills iff missing_skills is
\* non-empty, a junior/training-role one iff experience score < 0.6, a
\* domain-transition one iff domain score < 0.5 and skills score > 0.6;
\* every subset of the three occurs.
C21_Recommendations ==
    /\ analysis # NoResult =>
          LET D == analysis.domain_analysis.score
              S == analysis.skills_analysis.score
              E == analysis.experience_analysis.score
          IN  analysis.recommendations =
                 (IF analysis.skills_analysis.missing_skills # <<>>
                  THEN <<TrainingAdvice(analysis)>> ELSE <<>>)
                 \o (IF 10 * E.n < 6 * E.d THEN <<JuniorAdvice>> ELSE <<>>)
                 \o (IF 10 * D.n < 5 * D.d /\ 10 * S.n > 6 * S.d
                     THEN <<TransitionAdvice>> ELSE <<>>)
    /\ AllAdviceSubsetsOccur

\* all three recommendations at once
C21_Witness ==
    /\ analysis # NoResult
    /\ Len(analysis.recommendations) = 3
    /\ analysis.skills_analysis.missing_skills = <<Rust>>

C23_MatchedIffCredited ==
    analysis # NoResult =>
        LET cs == Get(candidate, "skills", <<>>)
            rs == Get(job, "required_skills", <<>>)
        IN  \A i \in 1..Len(rs) :
               /\ ListHas(analysis.skills_analysis.matched_skills, rs[i])
                     <=> Credit2(rs[i], cs) > 0
               /\ ListHas(analysis.skills_analysis.missing_skills, rs[i])
                     <=> Credit2(rs[i], cs) = 0

\* one skill contains the other, case ignored
Overlaps(a, b) == StrIn(lower(a), lower(b)) \/ StrIn(lower(b), lower(a))

\* C24: additional_skills is the sub-sequence of the candidate's skills that
\* matched no required skill: a candidate skill that matched a required
\* skill (case-insensitive containment in either direction) never appears
\* in it.
C24_AdditionalSkillsUnmatched ==
    analysis # NoResult =>
        LET cs == Get(candidate, "skills", <<>>)
            rs == Get(job, "required_skills", <<>>)
            Unmatched(c) == \A i \in 1..Len(rs) : ~Overlaps(c, rs[i])
        IN  analysis.skills_analysis.additional_skills = SelectSeq(cs, Unmatched)

\* C29: whenever the skills dimension is reported as a gap, missing_skills
\* is non-empty; a job with no required skills never produces a skills gap.
C29_SkillsGapNamesASkill ==
    (analysis # NoResult /\ Noted(analysis.gaps, "skills")) =>
        /\ analysis.skills_analysis.missing_skills # <<>>
        /\ Get(job, "required_skills", <<>>) # <<>>

\* C30: appending one further skill to the candidate's skill list, all else
\* unchanged, never lowers calculate_match_score.
C30_MoreSkillsNeverHurt ==
    (score # NoResult /\ "skills" \in DOMAIN candidate) =>
        \A s \in SkillVocab :
            RatLeq(score,
                   calculate_match_score(SetItem(candidate, "skills",
                                                 Append(candidate["skills"], s)), job))

\* the record with the absent keys of a default set to their default
WithDefaults(d, defaults) ==
    [k \in DOMAIN d \cup DOMAIN defaults |-> IF k \in DOMAIN d THEN d[k] ELSE defaults[k]]

CandidateDefaults == [skills |-> <<>>, experience_years |-> 0]
JobDefaults == [required_skills |-> <<>>, required_experience |-> 0]

\* C25: with any of the optional fields absent, calculate_match_score and
\* analyze_match_details return a result, and it is the result for the
\* records with an absent skill list replaced by the empty list and an
\* absent experience by 0.
C25_AbsentFieldsDefaulted ==
    LET c0 == WithDefaults(candidate, CandidateDefaults)
        j0 == WithDefaults(job, JobDefaults)
        filled == c0 # candidate \/ j0 # job
    IN  /\ score # NoResult =>
              /\ 0 <= score.n /\ score.n <= score.d
              /\ filled => score = calculate_match_score(c0, j0)
        /\ analysis # NoResult =>
              /\ 0 <= analysis.overall_score.n
              /\ analysis.overall_score.n <= analysis.overall_score.d
              /\ filled => analysis = analyze_match_details(c0, j0)

\* a candidate with neither skills nor experience, scored and analysed
\* against a job that requires both
C25_Witness ==
    /\ DOMAIN candidate = {"name"}
    /\ "required_skills" \in DOMAIN job /\ job["required_skills"] # <<>>
    /\ "required_experience" \in DOMAIN job
    /\ score # NoResult
    /\ analysis # NoResult

\* place of a dimension in the order domain, skills, experience
DimRank(dim) == IF dim = "domain" THEN 1 ELSE IF dim = "skills" THEN 2 ELSE 3

InDimOrder(list) ==
    \A i, j \in 1..Len(list) : i < j => DimRank(list[i].dim) < DimRank(list[j].dim)

\* C28: len(strengths) + len(gaps) = 3, one entry per dimension, in the
\* order domain, skills, experience within each list.
C28_ThreeNotes ==
    analysis # NoResult =>
        /\ Len(analysis.strengths) + Len(analysis.gaps) = 3
        /\ \A dim \in {"domain", "skills", "experience"} :
              Noted(analysis.strengths, dim) \/ Noted(analysis.gaps, dim)
        /\ \A i \in 1..Len(analysis.strengths) :
              analysis.strengths[i].dim \in {"domain", "skills", "experience"}
        /\ \A i \in 1..Len(analysis.gaps) :
              analysis.gaps[i].dim \in {"domain", "skills", "experience"}
        /\ InDimOrder(analysis.strengths)
        /\ InDimOrder(analysis.gaps)

\* two strengths and one gap: domain and experience, and the skills between
C28_Witness ==
    /\ analysis # NoResult
    /\ Len(analysis.strengths) = 2
    /\ analysis.strengths[1].dim = "domain"
    /\ analysis.strengths[2].dim = "experience"
    /\ Len(analysis.gaps) = 1
    /\ analysis.gaps[1].dim = "skills"

====
